---- MODULE Spec2Model ----
(***************************************************************************)
(* A model of knope's release workflow: the semantic-version bump rules    *)
(* (src/releases/semver.rs), the issue selection and transition steps      *)
(* (src/issues/mod.rs) and the templated command step (src/command.rs).    *)
(*                                                                         *)
(* Text (version strings, prerelease labels, commands) is a sequence of    *)
(* one-character strings, so that formatting, splitting and parsing are    *)
(* computed rather than assumed.                                           *)
(***************************************************************************)
EXTENDS Integers, Sequences, FiniteSets, TLC

VARIABLES
    state,            \* the workflow State threaded through the steps
    dry_run,          \* RunType: TRUE for DryRun, FALSE for Real
    stdout,           \* the DryRun sink: the lines written to it
    cargo_toml,       \* version string held by Cargo.toml, or NoFile
    pyproject_toml,   \* version string held by pyproject.toml, or NoFile
    package_json,     \* version string held by package.json, or NoFile
    overflow_checks,  \* build profile: TRUE when integer overflow panics
    tracker_calls,    \* calls made to the issue trackers, in order
    prompts,          \* number of times the user was prompted to select
    spawned,          \* commands the shell ran, with exit status, in order
    last,             \* the step that ran last, its inputs and its result
    steps             \* number of steps run so far

vars == <<state, dry_run, stdout, cargo_toml, pyproject_toml, package_json,
          overflow_checks, tracker_calls, prompts, spawned, last, steps>>

----------------------------------------------------------------------------
(* Bounds of the model *)

\* Steps of one workflow run.
MaxSteps == 2

\* Bump steps applied in a row when the bump rules are checked on their own.
MaxBumps == 1

\* Largest numeric component of the versions the bump rules start from.
MaxComponent == 1

----------------------------------------------------------------------------
(* Results *)

Ok(v) == [ok |-> TRUE, val |-> v, err |-> "None"]

Err(e) == [ok |-> FALSE, val |-> <<>>, err |-> e]

----------------------------------------------------------------------------
(* Text *)

Digits == {"0", "1", "2", "3", "4", "5", "6", "7", "8", "9"}

Letters == {"a", "b", "c", "d", "e", "f", "g", "h", "i", "j", "k", "l", "m",
            "n", "o", "p", "q", "r", "s", "t", "u", "v", "w", "x", "y", "z",
            "A", "B", "C", "D", "E", "F", "G", "H", "I", "J", "K", "L", "M",
            "N", "O", "P", "Q", "R", "S", "T", "U", "V", "W", "X", "Y", "Z"}

DigitVal(c) ==
    CASE c = "0" -> 0 [] c = "1" -> 1 [] c = "2" -> 2 [] c = "3" -> 3
      [] c = "4" -> 4 [] c = "5" -> 5 [] c = "6" -> 6 [] c = "7" -> 7
      [] c = "8" -> 8 [] c = "9" -> 9

DigitChar(d) ==
    CASE d = 0 -> "0" [] d = 1 -> "1" [] d = 2 -> "2" [] d = 3 -> "3"
      [] d = 4 -> "4" [] d = 5 -> "5" [] d = 6 -> "6" [] d = 7 -> "7"
      [] d = 8 -> "8" [] d = 9 -> "9"

\* Position of the first c in s, 0 when there is none.
IndexOf(s, c) ==
    IF \E i \in 1..Len(s) : s[i] = c
    THEN CHOOSE i \in 1..Len(s) : s[i] = c /\ \A j \in 1..(i - 1) : s[j] # c
    ELSE 0

\* str::split(sep): the pieces between the separators; one piece when there
\* is no separator, also for the empty text.
RECURSIVE Split(_, _)
Split(s, sep) ==
    LET i == IndexOf(s, sep)
    IN  IF i = 0 THEN <<s>>
        ELSE <<SubSeq(s, 1, i - 1)>> \o Split(SubSeq(s, i + 1, Len(s)), sep)

\* Display of an unsigned integer: decimal, no sign, no leading zero.
RECURSIVE to_string(_)
to_string(n) ==
    IF n < 10 THEN <<DigitChar(n)>>
    ELSE to_string(n \div 10) \o <<DigitChar(n % 10)>>

AllDigits(s) == \A i \in 1..Len(s) : s[i] \in Digits

\* Value of a digit string, stopping at limit + 1 once the limit is passed
\* (checked multiplication and addition).
RECURSIVE DecimalValue(_, _)
DecimalValue(s, limit) ==
    IF Len(s) = 0 THEN 0
    ELSE LET hi == DecimalValue(SubSeq(s, 1, Len(s) - 1), limit)
             v  == hi * 10 + DigitVal(s[Len(s)])
         IN  IF hi > limit \/ v > limit THEN limit + 1 ELSE v

----------------------------------------------------------------------------
(* The semver crate: Version, Prerelease, parsing and display *)

U16Max == 65535

\* str::parse::<u16>: a non-empty run of digits whose value fits 16 bits.
\* (A leading "+" is accepted by Rust but cannot occur in a prerelease.)
ParseU16(s) ==
    IF Len(s) = 0 \/ ~AllDigits(s) THEN Err("ParseIntError")
    ELSE LET v == DecimalValue(s, U16Max)
         IN  IF v > U16Max THEN Err("ParseIntError") ELSE Ok(v)

\* A prerelease or build identifier: non-empty, ASCII alphanumerics and
\* hyphen; a prerelease identifier made of digits only has no leading zero.
ValidIdentifier(id, numericRule) ==
    /\ Len(id) > 0
    /\ \A i \in 1..Len(id) : id[i] \in Digits \cup Letters \cup {"-"}
    /\ (numericRule /\ AllDigits(id) /\ Len(id) > 1) => id[1] # "0"

\* Prerelease::new: the empty text is Prerelease::EMPTY, any other text is
\* dot-separated valid identifiers.
PrereleaseNew(text) ==
    IF text = <<>> THEN Ok(<<>>)
    ELSE LET ids == Split(text, ".")
         IN  IF \A i \in 1..Len(ids) : ValidIdentifier(ids[i], TRUE)
             THEN Ok(text)
             ELSE Err("InvalidPrerelease")

\* A numeric component of a version: digits, no leading zero.  The versions
\* of the model stay far below 2^64, so the u64 limit is never met.
ValidNumeric(s) ==
    /\ Len(s) > 0
    /\ AllDigits(s)
    /\ Len(s) > 1 => s[1] # "0"

RECURSIVE Decimal(_)
Decimal(s) ==
    IF Len(s) = 0 THEN 0
    ELSE Decimal(SubSeq(s, 1, Len(s) - 1)) * 10 + DigitVal(s[Len(s)])

Version(major, minor, patch, pre) ==
    [major |-> major, minor |-> minor, patch |-> patch, pre |-> pre,
     build |-> <<>>]

\* Version::parse: MAJOR.MINOR.PATCH, then "-" and a non-empty prerelease,
\* then "+" and non-empty build metadata, both optional.
VersionParse(text) ==
    LET plus  == IndexOf(text, "+")
        core  == IF plus = 0 THEN text ELSE SubSeq(text, 1, plus - 1)
        build == IF plus = 0 THEN <<>> ELSE SubSeq(text, plus + 1, Len(text))
        dash  == IndexOf(core, "-")
        nums  == IF dash = 0 THEN core ELSE SubSeq(core, 1, dash - 1)
        pre   == IF dash = 0 THEN <<>> ELSE SubSeq(core, dash + 1, Len(core))
        parts == Split(nums, ".")
        bids  == Split(build, ".")
    IN  IF /\ Len(parts) = 3
           /\ \A i \in 1..3 : ValidNumeric(parts[i])
           /\ dash # 0 => (pre # <<>> /\ PrereleaseNew(pre).ok)
           /\ plus # 0 => \A i \in 1..Len(bids) : ValidIdentifier(bids[i], FALSE)
        THEN Ok([major |-> Decimal(parts[1]), minor |-> Decimal(parts[2]),
                 patch |-> Decimal(parts[3]), pre |-> pre, build |-> build])
        ELSE Err("InvalidVersion")

\* Display for Version.
VersionToString(v) ==
    to_string(v.major) \o <<".">> \o to_string(v.minor) \o <<".">>
        \o to_string(v.patch)
        \o (IF v.pre = <<>> THEN <<>> ELSE <<"-">> \o v.pre)
        \o (IF v.build = <<>> THEN <<>> ELSE <<"+">> \o v.build)

----------------------------------------------------------------------------
(* Rules (semver.rs, Rule and ConventionalRule) *)

ConventionalRule == {"Major", "Minor", "Patch"}

\* A Rule; label and fallback_rule matter for Pre only (fallback_rule is
\* ConventionalRule::default() unless set).
Rule(rule, label, fallback_rule) ==
    [rule |-> rule, label |-> label, fallback_rule |-> fallback_rule]

Major == Rule("Major", <<>>, "Patch")

Minor == Rule("Minor", <<>>, "Patch")

Patch == Rule("Patch", <<>>, "Patch")

Release == Rule("Release", <<>>, "Patch")

Pre(label, fallback_rule) == Rule("Pre", label, fallback_rule)

\* impl From<ConventionalRule> for Rule
RuleFrom(fallback_rule) ==
    CASE fallback_rule = "Major" -> Major
      [] fallback_rule = "Minor" -> Minor
      [] fallback_rule = "Patch" -> Patch

----------------------------------------------------------------------------
(* bump and bump_pre (semver.rs) *)

\* bump_major with the reset of minor forgotten.
bump_major_keeps_minor(version) ==
    [version EXCEPT !.major = @ + 1, !.patch = 0, !.pre = <<>>]

\* (Rule::Major, false)
bump_major(version) ==
    [version EXCEPT !.major = @ + 1, !.minor = 0, !.patch = 0, !.pre = <<>>]

\* bump_minor with the minor number left as it is.
bump_minor_resets_only(version) ==
    [version EXCEPT !.patch = 0, !.pre = <<>>]

\* (Rule::Minor, false) | (Rule::Major, true)
bump_minor(version) ==
    [version EXCEPT !.minor = @ + 1, !.patch = 0, !.pre = <<>>]

\* (Rule::Patch, _) | (Rule::Minor, true)
bump_patch(version) ==
    [version EXCEPT !.patch = @ + 1, !.pre = <<>>]

\* bump_release with the prerelease left in place.
bump_release_keeps_pre(version) == version

\* (Rule::Release, _)
bump_release(version) ==
    [version EXCEPT !.pre = <<>>]

\* version.pre = Prerelease::new(&format!("{}.{}", prefix, n))?
set_pre(version, prefix, n) ==
    LET p == PrereleaseNew(prefix \o <<".">> \o n)
    IN  IF p.ok THEN Ok([version EXCEPT !.pre = p.val]) ELSE Err(p.err)

\* pre_version + 1 on a u16: past u16::MAX the addition panics when the
\* build checks overflow and wraps around when it does not.
increment_u16(pre_version) ==
    IF pre_version + 1 <= U16Max THEN Ok(pre_version + 1)
    ELSE IF overflow_checks THEN Err("Panic")
    ELSE Ok((pre_version + 1) % (U16Max + 1))

RECURSIVE bump(_, _)

\* bump_pre with the fallback rule not applied to a version that has no
\* prerelease yet.
bump_pre_skips_fallback(version, prefix, fallback_rule) ==
    IF version.pre = <<>>
    THEN LET bumped == Ok(version)
         IN  IF bumped.ok THEN set_pre(bumped.val, prefix, <<"0">>)
             ELSE bumped
    ELSE LET parts == Split(version.pre, ".")
         IN  IF Len(parts) # 2 THEN Err("PrereleaseNotIncrementable")
             ELSE IF parts[1] # prefix THEN set_pre(version, prefix, <<"0">>)
             ELSE LET pre_version == ParseU16(parts[2])
                      next == IF pre_version.ok
                              THEN increment_u16(pre_version.val)
                              ELSE pre_version
                  IN  IF next.ok
                      THEN set_pre(version, prefix, to_string(next.val))
                      ELSE next

\* bump_pre with the fallback rule applied whether or not a prerelease
\* exists.
bump_pre_always_falls_back(version, prefix, fallback_rule) ==
    LET bumped == bump([version EXCEPT !.pre = <<>>], RuleFrom(fallback_rule))
        parts  == Split(version.pre, ".")
    IN  IF version.pre = <<>> \/ (Len(parts) = 2 /\ parts[1] # prefix)
        THEN set_pre(bumped.val, prefix, <<"0">>)
        ELSE IF Len(parts) # 2 THEN Err("PrereleaseNotIncrementable")
        ELSE LET pre_version == ParseU16(parts[2])
                 next == IF pre_version.ok
                         THEN increment_u16(pre_version.val)
                         ELSE pre_version
             IN  IF next.ok
                 THEN set_pre(bumped.val, prefix, to_string(next.val))
                 ELSE next

\* bump_pre with a malformed prerelease replaced by "label.0" instead of
\* refused.
bump_pre_resets_malformed(version, prefix, fallback_rule) ==
    IF version.pre = <<>>
    THEN LET bumped == bump(version, RuleFrom(fallback_rule))
         IN  IF bumped.ok THEN set_pre(bumped.val, prefix, <<"0">>)
             ELSE bumped
    ELSE LET parts == Split(version.pre, ".")
         IN  IF Len(parts) # 2 THEN set_pre(version, prefix, <<"0">>)
             ELSE IF parts[1] # prefix THEN set_pre(version, prefix, <<"0">>)
             ELSE LET pre_version == ParseU16(parts[2])
                      next == IF pre_version.ok
                              THEN increment_u16(pre_version.val)
                              ELSE pre_version
                  IN  IF next.ok
                      THEN set_pre(version, prefix, to_string(next.val))
                      ELSE next

bump_pre(version, prefix, fallback_rule) ==
    IF version.pre = <<>>
    THEN LET bumped == bump(version, RuleFrom(fallback_rule))
         IN  IF bumped.ok THEN set_pre(bumped.val, prefix, <<"0">>)
             ELSE bumped
    ELSE LET parts == Split(version.pre, ".")
         IN  IF Len(parts) # 2 THEN Err("PrereleaseNotIncrementable")
             ELSE IF parts[1] # prefix THEN set_pre(version, prefix, <<"0">>)
             ELSE LET pre_version == ParseU16(parts[2])
                      next == IF pre_version.ok
                              THEN increment_u16(pre_version.val)
                              ELSE pre_version
                  IN  IF next.ok
                      THEN set_pre(version, prefix, to_string(next.val))
                      ELSE next

\* bump without the special case of the 0.x versions.
bump_without_0x(version, rule) ==
    CASE rule.rule = "Major" -> Ok(bump_major(version))
      [] rule.rule = "Minor" -> Ok(bump_minor(version))
      [] rule.rule = "Patch" -> Ok(bump_patch(version))
      [] rule.rule = "Release" -> Ok(bump_release(version))
      [] rule.rule = "Pre"
            -> bump_pre(version, rule.label, rule.fallback_rule)

bump(version, rule) ==
    LET is_0 == version.major = 0
    IN  CASE rule.rule = "Major" /\ ~is_0 -> Ok(bump_major(version))
          [] (rule.rule = "Minor" /\ ~is_0) \/ (rule.rule = "Major" /\ is_0)
                -> Ok(bump_minor(version))
          [] rule.rule = "Patch" \/ (rule.rule = "Minor" /\ is_0)
                -> Ok(bump_patch(version))
          [] rule.rule = "Release" -> Ok(bump_release(version))
          [] rule.rule = "Pre"
                -> bump_pre(version, rule.label, rule.fallback_rule)

----------------------------------------------------------------------------
(* Manifests and version discovery (semver.rs, get_version and set_version) *)

None == [some |-> FALSE, v |-> <<>>]

Some(x) == [some |-> TRUE, v |-> x]

PackageVersion(version, package_manager) ==
    [version |-> version, package_manager |-> package_manager]

\* Parse the version string found in one manifest.
found_version(text, package_manager) ==
    LET parsed == VersionParse(text)
    IN  IF parsed.ok THEN Ok(PackageVersion(parsed.val, package_manager))
        ELSE Err("InvalidVersion")

\* get_version with pyproject.toml asked before Cargo.toml.
get_version_pyproject_first ==
    IF pyproject_toml.some THEN found_version(pyproject_toml.v, "Poetry")
    ELSE IF cargo_toml.some THEN found_version(cargo_toml.v, "Cargo")
    ELSE IF package_json.some THEN found_version(package_json.v, "JavaScript")
    ELSE Err("NoSupportedMetadata")

\* get_version: Cargo.toml, then pyproject.toml, then package.json; the
\* first manifest that yields a version string decides.
get_version ==
    IF cargo_toml.some THEN found_version(cargo_toml.v, "Cargo")
    ELSE IF pyproject_toml.some THEN found_version(pyproject_toml.v, "Poetry")
    ELSE IF package_json.some THEN found_version(package_json.v, "JavaScript")
    ELSE Err("NoSupportedMetadata")

\* The content of the manifest a package manager owns.
ManifestOf(files, package_manager) ==
    CASE package_manager = "Cargo" -> files.cargo_toml
      [] package_manager = "Poetry" -> files.pyproject_toml
      [] package_manager = "JavaScript" -> files.package_json

\* The three manifests as they are now.
Files ==
    [cargo_toml |-> cargo_toml, pyproject_toml |-> pyproject_toml,
     package_json |-> package_json]

\* set_version: write the version to the manifest it was read from.  The
\* write succeeds or fails (write_ok); a failed write leaves the file alone.
set_version(package_version, write_ok) ==
    LET text == Some(VersionToString(package_version.version))
        pm   == package_version.package_manager
    IN  IF ~write_ok THEN [result |-> Err("ManifestWrite"), files |-> Files]
        ELSE [result |-> Ok(<<>>),
              files  |->
                  CASE pm = "Cargo" -> [Files EXCEPT !.cargo_toml = text]
                    [] pm = "Poetry" -> [Files EXCEPT !.pyproject_toml = text]
                    [] pm = "JavaScript" ->
                          [Files EXCEPT !.package_json = text]]

\* write_bumped with the dry_run flag ignored: the manifest is written in
\* every run.
write_bumped_ignores_dry(package_version, bumped, dry, write_ok) ==
    IF ~bumped.ok THEN [result |-> bumped, files |-> Files]
    ELSE LET written ==
                 set_version([package_version EXCEPT !.version = bumped.val],
                             write_ok)
         IN  IF written.result.ok
             THEN [result |-> bumped, files |-> written.files]
             ELSE written

\* write_bumped with the outcome of set_version not looked at.
write_bumped_ignores_write_error(package_version, bumped, dry, write_ok) ==
    IF ~bumped.ok \/ dry THEN [result |-> bumped, files |-> Files]
    ELSE [result |-> bumped,
          files  |-> set_version([package_version EXCEPT
                                     !.version = bumped.val],
                                 write_ok).files]

\* The end of bump_version, once a version was found and the rule applied:
\* the manifest is written unless dry_run is set, and the bumped version
\* is returned if the write went through.
write_bumped(package_version, bumped, dry, write_ok) ==
    IF ~bumped.ok \/ dry THEN [result |-> bumped, files |-> Files]
    ELSE LET written ==
                 set_version([package_version EXCEPT !.version = bumped.val],
                             write_ok)
         IN  IF written.result.ok
             THEN [result |-> bumped, files |-> written.files]
             ELSE written

\* bump_version(rule, dry_run): the bumped version or the error, and the
\* manifests afterwards.
bump_version(rule, dry, write_ok) ==
    IF ~get_version.ok THEN [result |-> get_version, files |-> Files]
    ELSE write_bumped(get_version.val,
                      bump(get_version.val.version, rule), dry, write_ok)

----------------------------------------------------------------------------
(* The workflow state (State, Issue, Release) *)

NoIssue ==
    [variant |-> "Initial", key |-> <<>>, summary |-> <<>>, number |-> 0,
     title |-> <<>>]

Jira(key, summary) ==
    [variant |-> "Jira", key |-> key, summary |-> summary, number |-> 0,
     title |-> <<>>]

GitHub(number, title) ==
    [variant |-> "GitHub", key |-> <<>>, summary |-> <<>>,
     number |-> number, title |-> title]

ReleaseInitial == [tag |-> "Initial", version |-> <<>>]

Bumped(version) == [tag |-> "Bumped", version |-> version]

\* State::new(jira_config, github_config)
StateNew(jira_config, github_config) ==
    [jira_config |-> jira_config, github_state |-> "New",
     github_config |-> github_config, issue |-> NoIssue,
     release |-> ReleaseInitial]

IssueSelected == state.issue.variant # "Initial"

\* What a step was given and what it returned.
Step(op, arg, result) ==
    [op |-> op, arg |-> arg, found |-> Err("NotAsked"), result |-> result]

----------------------------------------------------------------------------
(* The steps *)

\* The driver runs the steps one after the other and stops at the first
\* step that fails.
Running == last.result.ok

\* A step that failed: the workflow state it consumed is dropped and the
\* run is over; nothing else was touched unless the step says so.
Failed(op, arg, e) ==
    /\ last' = Step(op, arg, Err(e))
    /\ steps' = steps + 1

\* select_jira_issue with the check for an issue already selected left
\* out: it queries, prompts and replaces the issue.
select_jira_issue_again(status, issues, choice) ==
    /\ Running
    /\ UNCHANGED <<dry_run, stdout, cargo_toml, pyproject_toml, package_json,
                   overflow_checks, spawned>>
    /\ IF ~state.jira_config.some
       THEN /\ Failed("select_jira_issue", status, "JiraNotConfigured")
            /\ UNCHANGED <<state, tracker_calls, prompts>>
       ELSE /\ tracker_calls' = Append(tracker_calls, "jira::get_issues")
            /\ IF ~issues.ok
               THEN /\ Failed("select_jira_issue", status, "Tracker")
                    /\ UNCHANGED <<state, prompts>>
               ELSE /\ prompts' = prompts + 1
                    /\ IF choice \notin 1..Len(issues.val)
                       THEN /\ Failed("select_jira_issue", status, "Prompt")
                            /\ UNCHANGED state
                       ELSE /\ state' = [state EXCEPT
                                            !.issue = issues.val[choice]]
                            /\ last' = Step("select_jira_issue", status,
                                            Ok(state'))
                            /\ steps' = steps + 1

\* select_jira_issue with the state it returns built anew, its release
\* back at Initial.
select_jira_issue_resets_release(status, issues, choice) ==
    /\ Running
    /\ UNCHANGED <<dry_run, stdout, cargo_toml, pyproject_toml, package_json,
                   overflow_checks, spawned>>
    /\ IF IssueSelected
       THEN /\ Failed("select_jira_issue", status, "AlreadySelected")
            /\ UNCHANGED <<state, tracker_calls, prompts>>
       ELSE IF ~state.jira_config.some
       THEN /\ Failed("select_jira_issue", status, "JiraNotConfigured")
            /\ UNCHANGED <<state, tracker_calls, prompts>>
       ELSE /\ tracker_calls' = Append(tracker_calls, "jira::get_issues")
            /\ IF ~issues.ok
               THEN /\ Failed("select_jira_issue", status, "Tracker")
                    /\ UNCHANGED <<state, prompts>>
               ELSE /\ prompts' = prompts + 1
                    /\ IF choice \notin 1..Len(issues.val)
                       THEN /\ Failed("select_jira_issue", status, "Prompt")
                            /\ UNCHANGED state
                       ELSE /\ state' = [state EXCEPT
                                            !.issue = issues.val[choice],
                                            !.release = ReleaseInitial]
                            /\ last' = Step("select_jira_issue", status,
                                            Ok(state'))
                            /\ steps' = steps + 1

\* select_jira_issue(status, state).  issues is what jira::get_issues
\* answers (an error, or the candidates) and choice what the user picks at
\* the prompt (0: the prompt fails).
select_jira_issue(status, issues, choice) ==
    /\ Running
    /\ UNCHANGED <<dry_run, stdout, cargo_toml, pyproject_toml, package_json,
                   overflow_checks, spawned>>
    /\ IF IssueSelected
       THEN /\ Failed("select_jira_issue", status, "AlreadySelected")
            /\ UNCHANGED <<state, tracker_calls, prompts>>
       ELSE IF ~state.jira_config.some
       THEN /\ Failed("select_jira_issue", status, "JiraNotConfigured")
            /\ UNCHANGED <<state, tracker_calls, prompts>>
       ELSE /\ tracker_calls' = Append(tracker_calls, "jira::get_issues")
            /\ IF ~issues.ok
               THEN /\ Failed("select_jira_issue", status, "Tracker")
                    /\ UNCHANGED <<state, prompts>>
               ELSE /\ prompts' = prompts + 1
                    /\ IF choice \notin 1..Len(issues.val)
                       THEN /\ Failed("select_jira_issue", status, "Prompt")
                            /\ UNCHANGED state
                       ELSE /\ state' = [state EXCEPT
                                            !.issue = issues.val[choice]]
                            /\ last' = Step("select_jira_issue", status,
                                            Ok(state'))
                            /\ steps' = steps + 1

\* select_github_issue(labels, state).  listed is what github::list_issues
\* answers: an error, or the candidates with the tracker session it set up.
select_github_issue(labels, listed, choice) ==
    /\ Running
    /\ UNCHANGED <<dry_run, stdout, cargo_toml, pyproject_toml, package_json,
                   overflow_checks, spawned>>
    /\ IF IssueSelected
       THEN /\ Failed("select_github_issue", labels, "AlreadySelected")
            /\ UNCHANGED <<state, tracker_calls, prompts>>
       ELSE /\ tracker_calls' = Append(tracker_calls, "github::list_issues")
            /\ IF ~listed.ok
               THEN /\ Failed("select_github_issue", labels, "Tracker")
                    /\ UNCHANGED <<state, prompts>>
               ELSE /\ prompts' = prompts + 1
                    /\ IF choice \notin 1..Len(listed.val)
                       THEN /\ Failed("select_github_issue", labels, "Prompt")
                            /\ UNCHANGED state
                       ELSE /\ state' = [state EXCEPT
                                            !.github_state = "Initialized",
                                            !.issue = listed.val[choice]]
                            /\ last' = Step("select_github_issue", labels,
                                            Ok(state'))
                            /\ steps' = steps + 1

\* transition_selected_issue with a GitHub issue passed through as a
\* success that does nothing.
transition_selected_issue_github_noop(status, transitioned) ==
    /\ Running
    /\ UNCHANGED <<dry_run, stdout, cargo_toml, pyproject_toml, package_json,
                   overflow_checks, spawned, prompts>>
    /\ IF ~IssueSelected
       THEN /\ Failed("transition_selected_issue", status, "NoIssueSelected")
            /\ UNCHANGED <<state, tracker_calls>>
       ELSE IF state.issue.variant = "GitHub"
       THEN /\ UNCHANGED <<state, tracker_calls>>
            /\ last' = Step("transition_selected_issue", status, Ok(state))
            /\ steps' = steps + 1
       ELSE IF ~state.jira_config.some
       THEN /\ Failed("transition_selected_issue", status,
                      "JiraNotConfigured")
            /\ UNCHANGED <<state, tracker_calls>>
       ELSE /\ tracker_calls' =
                   Append(tracker_calls, "jira::transition_issue")
            /\ IF ~transitioned
               THEN /\ Failed("transition_selected_issue", status, "Tracker")
                    /\ UNCHANGED state
               ELSE /\ state' = [state EXCEPT
                                    !.issue = Jira(state.issue.key,
                                                   state.issue.summary)]
                    /\ last' = Step("transition_selected_issue", status,
                                    Ok(state'))
                    /\ steps' = steps + 1

\* transition_selected_issue with the summary dropped from the issue it
\* puts back into the state.
transition_selected_issue_drops_summary(status, transitioned) ==
    /\ Running
    /\ UNCHANGED <<dry_run, stdout, cargo_toml, pyproject_toml, package_json,
                   overflow_checks, spawned, prompts>>
    /\ IF ~IssueSelected
       THEN /\ Failed("transition_selected_issue", status, "NoIssueSelected")
            /\ UNCHANGED <<state, tracker_calls>>
       ELSE IF state.issue.variant = "GitHub"
       THEN /\ Failed("transition_selected_issue", status, "NotSupported")
            /\ UNCHANGED <<state, tracker_calls>>
       ELSE IF ~state.jira_config.some
       THEN /\ Failed("transition_selected_issue", status,
                      "JiraNotConfigured")
            /\ UNCHANGED <<state, tracker_calls>>
       ELSE /\ tracker_calls' =
                   Append(tracker_calls, "jira::transition_issue")
            /\ IF ~transitioned
               THEN /\ Failed("transition_selected_issue", status, "Tracker")
                    /\ UNCHANGED state
               ELSE /\ state' = [state EXCEPT
                                    !.issue = Jira(state.issue.key, <<>>)]
                    /\ last' = Step("transition_selected_issue", status,
                                    Ok(state'))
                    /\ steps' = steps + 1

\* transition_selected_issue(status, state).  transitioned is whether
\* jira::transition_issue succeeds.
transition_selected_issue(status, transitioned) ==
    /\ Running
    /\ UNCHANGED <<dry_run, stdout, cargo_toml, pyproject_toml, package_json,
                   overflow_checks, spawned, prompts>>
    /\ IF ~IssueSelected
       THEN /\ Failed("transition_selected_issue", status, "NoIssueSelected")
            /\ UNCHANGED <<state, tracker_calls>>
       ELSE IF state.issue.variant = "GitHub"
       THEN /\ Failed("transition_selected_issue", status, "NotSupported")
            /\ UNCHANGED <<state, tracker_calls>>
       ELSE IF ~state.jira_config.some
       THEN /\ Failed("transition_selected_issue", status,
                      "JiraNotConfigured")
            /\ UNCHANGED <<state, tracker_calls>>
       ELSE /\ tracker_calls' =
                   Append(tracker_calls, "jira::transition_issue")
            /\ IF ~transitioned
               THEN /\ Failed("transition_selected_issue", status, "Tracker")
                    /\ UNCHANGED state
               ELSE /\ state' = [state EXCEPT
                                    !.issue = Jira(state.issue.key,
                                                   state.issue.summary)]
                    /\ last' = Step("transition_selected_issue", status,
                                    Ok(state'))
                    /\ steps' = steps + 1

\* The end of bump_version_and_update_state: bumped is what bump_version
\* returned and the manifests it left.
update_state(rule, bumped) ==
    /\ Running
    /\ UNCHANGED <<dry_run, stdout, overflow_checks, tracker_calls, prompts,
                   spawned>>
    /\ cargo_toml' = bumped.files.cargo_toml
    /\ pyproject_toml' = bumped.files.pyproject_toml
    /\ package_json' = bumped.files.package_json
    /\ steps' = steps + 1
    /\ IF bumped.result.ok
       THEN /\ state' = [state EXCEPT !.release = Bumped(bumped.result.val)]
            /\ last' = [Step("bump_version", rule, Ok(state')) EXCEPT
                           !.found = get_version]
       ELSE /\ UNCHANGED state
            /\ last' = [Step("bump_version", rule, bumped.result) EXCEPT
                           !.found = get_version]

\* bump_version_and_update_state(state, rule): bump_version is called with
\* dry_run = false whatever the run type.
bump_version_and_update_state(rule, write_ok) ==
    update_state(rule, bump_version(rule, FALSE, write_ok))

\* The bump step as the run type has it: a real run goes through
\* bump_version_and_update_state; a dry run computes the version with
\* bump_version(rule, true), which writes nothing, and records it.
bump_version_step(rule, write_ok) ==
    IF dry_run THEN update_state(rule, bump_version(rule, TRUE, write_ok))
    ELSE bump_version_and_update_state(rule, write_ok)

----------------------------------------------------------------------------
(* run_command and replace_variables (command.rs) *)

\* str::replace: every non-overlapping occurrence of from, left to right;
\* the empty pattern matches before every character and at the end.
RECURSIVE Replace(_, _, _)
Replace(s, from, to) ==
    IF Len(from) = 0
    THEN IF Len(s) = 0 THEN to
         ELSE to \o <<s[1]>> \o Replace(Tail(s), from, to)
    ELSE IF Len(s) < Len(from) THEN s
    ELSE IF SubSeq(s, 1, Len(from)) = from
    THEN to \o Replace(SubSeq(s, Len(from) + 1, Len(s)), from, to)
    ELSE <<s[1]>> \o Replace(Tail(s), from, to)

\* git::branch_name_from_issue: the issue's key (or number), a hyphen and
\* its summary (or title) with the spaces turned into hyphens.
branch_name_from_issue(issue) ==
    IF issue.variant = "Jira"
    THEN issue.key \o <<"-">> \o Replace(issue.summary, <<" ">>, <<"-">>)
    ELSE to_string(issue.number) \o <<"-">>
             \o Replace(issue.title, <<" ">>, <<"-">>)

Variable(var_name, var_type) == [var_name |-> var_name, var_type |-> var_type]

\* replace_variables with an empty branch name substituted when no issue
\* is selected.
RECURSIVE replace_variables_blank_branch(_, _)
replace_variables_blank_branch(command, variables) ==
    IF variables = <<>> THEN Ok(command)
    ELSE LET var == Head(variables)
         IN  IF var.var_type = "Version"
             THEN LET version == get_version
                  IN  IF ~version.ok THEN version
                      ELSE replace_variables_blank_branch(
                               Replace(command, var.var_name,
                                       VersionToString(version.val.version)),
                               Tail(variables))
             ELSE replace_variables_blank_branch(
                      Replace(command, var.var_name,
                              IF IssueSelected
                              THEN branch_name_from_issue(state.issue)
                              ELSE <<>>),
                      Tail(variables))

\* replace_variables(command, variables, state); variables is the map in
\* the order the iteration visits it.
RECURSIVE replace_variables(_, _)
replace_variables(command, variables) ==
    IF variables = <<>> THEN Ok(command)
    ELSE LET var == Head(variables)
         IN  IF var.var_type = "Version"
             THEN LET version == get_version
                  IN  IF ~version.ok THEN version
                      ELSE replace_variables(
                               Replace(command, var.var_name,
                                       VersionToString(version.val.version)),
                               Tail(variables))
             ELSE IF ~IssueSelected THEN Err("NoIssueSelected")
             ELSE replace_variables(
                      Replace(command, var.var_name,
                              branch_name_from_issue(state.issue)),
                      Tail(variables))

\* The command template and the variables a run_command step was given.
Templated(command, variables) ==
    [command |-> command, variables |-> variables]

\* A command the shell was handed and the exit status it ended with.
Exited(command, status) == [command |-> command, status |-> status]

\* run_command with the dry run handing the command to the shell as well.
run_command_dry_spawns(command, variables, io_ok, exit) ==
    LET replaced == replace_variables(command, variables)
        given == Templated(command, variables)
    IN  /\ Running
        /\ UNCHANGED <<state, dry_run, cargo_toml, pyproject_toml,
                       package_json, overflow_checks, tracker_calls, prompts>>
        /\ steps' = steps + 1
        /\ IF ~replaced.ok
           THEN /\ last' = Step("run_command", given, replaced)
                /\ UNCHANGED <<stdout, spawned>>
           ELSE IF dry_run
           THEN /\ spawned' = Append(spawned, Exited(replaced.val, exit))
                /\ IF io_ok
                   THEN /\ stdout' = Append(stdout,
                               <<"W", "o", "u", "l", "d", " ", "r", "u", "n",
                                 " ">> \o replaced.val)
                        /\ last' = Step("run_command", given, Ok(state))
                   ELSE /\ UNCHANGED stdout
                        /\ last' = Step("run_command", given, Err("Io"))
           ELSE /\ UNCHANGED stdout
                /\ IF ~io_ok
                   THEN /\ UNCHANGED spawned
                        /\ last' = Step("run_command", given, Err("Io"))
                   ELSE /\ spawned' = Append(spawned, Exited(replaced.val, exit))
                        /\ last' = Step("run_command", given,
                               IF exit = 0 THEN Ok(state)
                               ELSE [Err("CommandError") EXCEPT !.val = exit])

\* run_command with the exit status of the command not looked at.
run_command_ignores_status(command, variables, io_ok, exit) ==
    LET replaced == replace_variables(command, variables)
        given == Templated(command, variables)
    IN  /\ Running
        /\ UNCHANGED <<state, dry_run, cargo_toml, pyproject_toml,
                       package_json, overflow_checks, tracker_calls, prompts>>
        /\ steps' = steps + 1
        /\ IF ~replaced.ok
           THEN /\ last' = Step("run_command", given, replaced)
                /\ UNCHANGED <<stdout, spawned>>
           ELSE IF dry_run
           THEN /\ UNCHANGED spawned
                /\ IF io_ok
                   THEN /\ stdout' = Append(stdout,
                               <<"W", "o", "u", "l", "d", " ", "r", "u", "n",
                                 " ">> \o replaced.val)
                        /\ last' = Step("run_command", given, Ok(state))
                   ELSE /\ UNCHANGED stdout
                        /\ last' = Step("run_command", given, Err("Io"))
           ELSE /\ UNCHANGED stdout
                /\ IF ~io_ok
                   THEN /\ UNCHANGED spawned
                        /\ last' = Step("run_command", given, Err("Io"))
                   ELSE /\ spawned' = Append(spawned, Exited(replaced.val, exit))
                        /\ last' = Step("run_command", given,
                               Ok(state))

\* run_command(run_type, command, variables).  io_ok: the write to the
\* DryRun sink, or the spawn of the shell, succeeds; exit: the exit status
\* of the command.
run_command(command, variables, io_ok, exit) ==
    LET replaced == replace_variables(command, variables)
        given == Templated(command, variables)
    IN  /\ Running
        /\ UNCHANGED <<state, dry_run, cargo_toml, pyproject_toml,
                       package_json, overflow_checks, tracker_calls, prompts>>
        /\ steps' = steps + 1
        /\ IF ~replaced.ok
           THEN /\ last' = Step("run_command", given, replaced)
                /\ UNCHANGED <<stdout, spawned>>
           ELSE IF dry_run
           THEN /\ UNCHANGED spawned
                /\ IF io_ok
                   THEN /\ stdout' = Append(stdout,
                               <<"W", "o", "u", "l", "d", " ", "r", "u", "n",
                                 " ">> \o replaced.val)
                        /\ last' = Step("run_command", given, Ok(state))
                   ELSE /\ UNCHANGED stdout
                        /\ last' = Step("run_command", given, Err("Io"))
           ELSE /\ UNCHANGED stdout
                /\ IF ~io_ok
                   THEN /\ UNCHANGED spawned
                        /\ last' = Step("run_command", given, Err("Io"))
                   ELSE /\ spawned' = Append(spawned, Exited(replaced.val, exit))
                        /\ last' = Step("run_command", given,
                               IF exit = 0 THEN Ok(state)
                               ELSE [Err("CommandError") EXCEPT !.val = exit])

----------------------------------------------------------------------------
(* Inputs *)

rc == <<"r", "c">>

beta == <<"b", "e", "t", "a">>

\* Prerelease labels a Pre rule may ask for: two plain ones, the empty
\* label and a label that holds a dot.
Labels == {rc, beta, <<>>, rc \o <<".", "1">>}

AllRules ==
    {Major, Minor, Patch, Release}
        \cup {Pre(label, fallback) : label \in Labels,
                                     fallback \in ConventionalRule}

\* Prereleases a manifest version may carry: none, label.N around the
\* 16-bit limit, a non-numeric counter, one part, three parts, other label.
Prereleases ==
    {<<>>,
     rc \o <<".", "0">>,
     rc \o <<".", "1">>,
     rc \o <<".", "6", "5", "5", "3", "4">>,
     rc \o <<".", "6", "5", "5", "3", "5">>,
     rc \o <<".", "6", "5", "5", "3", "6">>,
     rc \o <<".", "x">>,
     rc,
     rc \o <<".", "1", ".", "2">>,
     beta \o <<".", "3">>}

BumpVersions ==
    {Version(major, minor, patch, pre) :
        major \in 0..MaxComponent, minor \in 0..MaxComponent,
        patch \in 0..MaxComponent, pre \in Prereleases}

WorkflowRules == {Major, Patch, Release, Pre(rc, "Minor")}

CargoVersions ==
    {None,
     Some(<<"1", ".", "2", ".", "3">>),
     Some(<<"1", ".", "2">>)}

PyprojectVersions ==
    {None, Some(<<"0", ".", "1", ".", "0", "-", "r", "c", ".", "6", "5", "5",
                  "3", "5">>)}

\* package.json: absent, a label.N prerelease, a one-part prerelease.
PackageJsonVersions ==
    {None,
     Some(<<"2", ".", "0", ".", "0", "-", "b", ".", "0">>),
     Some(<<"2", ".", "0", ".", "0", "-", "b">>)}

JiraIssues ==
    <<Jira(<<"1", "3">>, <<"1", "2", "3", "4">>),
      Jira(<<"1", "4">>, <<"f", "i", "x", " ", "b">>)>>

GitHubIssues == <<GitHub(7, <<"a", "d", "d", " ", "x">>)>>

Statuses == {"In Progress", "Done"}

GitHubLabels == {None, Some(<<"bug">>)}

Commands ==
    {<<"e", "c", "h", "o">>,
     <<"t", "a", "g", " ", "$", "$", " ", "b">>}

VariableMaps ==
    LET version == Variable(<<"$", "$">>, "Version")
        branch  == Variable(<<"b">>, "IssueBranch")
    IN  {<<>>, <<version>>, <<branch>>, <<version, branch>>,
         <<branch, version>>}

----------------------------------------------------------------------------
(* The workflow *)

Init ==
    /\ \E jira_config \in {None, Some(<<"jira">>)} :
           state = StateNew(jira_config, Some(<<"github">>))
    /\ dry_run \in BOOLEAN
    /\ stdout = <<>>
    /\ cargo_toml \in CargoVersions
    /\ pyproject_toml \in PyprojectVersions
    /\ package_json \in PackageJsonVersions
    /\ overflow_checks \in BOOLEAN
    /\ tracker_calls = <<>>
    /\ prompts = 0
    /\ spawned = <<>>
    /\ last = Step("start", <<>>, Ok(state))
    /\ steps = 0

SelectJiraIssue ==
    \E status \in Statuses,
       issues \in {Err("Tracker"), Ok(<<>>), Ok(JiraIssues)},
       choice \in 0..Len(JiraIssues) :
        /\ steps < MaxSteps
        /\ select_jira_issue(status, issues, choice)

SelectGitHubIssue ==
    \E labels \in GitHubLabels,
       listed \in {Err("Tracker"), Ok(<<>>), Ok(GitHubIssues)},
       choice \in 0..Len(GitHubIssues) :
        /\ steps < MaxSteps
        /\ select_github_issue(labels, listed, choice)

TransitionSelectedIssue ==
    \E status \in Statuses, transitioned \in BOOLEAN :
        /\ steps < MaxSteps
        /\ transition_selected_issue(status, transitioned)

BumpVersion ==
    \E rule \in WorkflowRules, write_ok \in BOOLEAN :
        /\ steps < MaxSteps
        /\ bump_version_step(rule, write_ok)

RunCommand ==
    \E command \in Commands, variables \in VariableMaps,
       io_ok \in BOOLEAN, exit \in {0, 1} :
        /\ steps < MaxSteps
        /\ run_command(command, variables, io_ok, exit)

Next ==
    \/ SelectJiraIssue
    \/ SelectGitHubIssue
    \/ TransitionSelectedIssue
    \/ BumpVersion
    \/ RunCommand

Spec == Init /\ [][Next]_vars

----------------------------------------------------------------------------
(* The bump rules on their own: one manifest holding any of the versions, *)
(* bumped by any of the rules.                                            *)

InitBump ==
    /\ state = StateNew(None, None)
    /\ dry_run = FALSE
    /\ stdout = <<>>
    /\ \E version \in BumpVersions :
           cargo_toml = Some(VersionToString(version))
    /\ pyproject_toml = None
    /\ package_json = None
    /\ overflow_checks \in BOOLEAN
    /\ tracker_calls = <<>>
    /\ prompts = 0
    /\ spawned = <<>>
    /\ last = Step("start", <<>>, Ok(state))
    /\ steps = 0

BumpAny ==
    \E rule \in AllRules, write_ok \in BOOLEAN :
        /\ steps < MaxBumps
        /\ bump_version_and_update_state(rule, write_ok)

NextBump == BumpAny

SpecBump == InitBump /\ [][NextBump]_vars

----------------------------------------------------------------------------
(* What the last bump step was given and what it gave *)

\* The last step was a bump that found a valid version to start from.
BumpRan == last.op = "bump_version" /\ last.found.ok

\* The version that bump was applied to.
BumpInput == last.found.val.version

\* The rule that bump was applied with.
BumpRule == last.arg

\* bump returned version w: the step recorded Bumped(w), or failed only
\* because the manifest could not be written afterwards.
BumpGave(w) ==
    IF last.result.ok THEN state.release = Bumped(w)
    ELSE last.result.err = "ManifestWrite"

\* The existing prerelease is a non-empty text of exactly two parts.
TwoPartPre(version) ==
    version.pre # <<>> /\ Len(Split(version.pre, ".")) = 2

----------------------------------------------------------------------------
(* The bump rules: claims C1 to C7, checked under SpecBump *)

\* C1: for a version whose major is not 0, with or without a prerelease,
\* Major gives (major+1, 0, 0), Minor gives (major, minor+1, 0) and Patch
\* gives (major, minor, patch+1), each with an empty prerelease.
C1_BumpStable ==
    (BumpRan /\ BumpInput.major # 0) =>
        LET v == BumpInput
        IN  /\ BumpRule = Major =>
                   BumpGave([v EXCEPT !.major = v.major + 1, !.minor = 0,
                                      !.patch = 0, !.pre = <<>>])
            /\ BumpRule = Minor =>
                   BumpGave([v EXCEPT !.minor = v.minor + 1, !.patch = 0,
                                      !.pre = <<>>])
            /\ BumpRule = Patch =>
                   BumpGave([v EXCEPT !.patch = v.patch + 1, !.pre = <<>>])

C1_Witness ==
    /\ BumpRan
    /\ BumpInput.major # 0
    /\ BumpInput.pre # <<>>
    /\ BumpRule = Major
    /\ last.result.ok
    /\ state.release.version.major = BumpInput.major + 1

\* C2: for a version whose major is 0 the rules are demoted by one level:
\* Major gives (0, minor+1, 0), Minor gives (0, minor, patch+1), which is
\* what Patch gives; the prerelease is emptied and major stays 0 under
\* Major, Minor and Patch.
C2_BumpZero ==
    (BumpRan /\ BumpInput.major = 0) =>
        LET v == BumpInput
        IN  /\ BumpRule = Major =>
                   BumpGave([v EXCEPT !.minor = v.minor + 1, !.patch = 0,
                                      !.pre = <<>>])
            /\ BumpRule = Minor =>
                   /\ BumpGave([v EXCEPT !.patch = v.patch + 1,
                                         !.pre = <<>>])
                   /\ BumpGave(bump(v, Patch).val)
            /\ (BumpRule \in {Major, Minor, Patch} /\ last.result.ok) =>
                   state.release.version.major = 0

C2_Witness ==
    /\ BumpRan
    /\ BumpInput.major = 0
    /\ BumpRule = Minor
    /\ last.result.ok
    /\ state.release.version.patch = BumpInput.patch + 1

\* C3: Release never fails and returns the version with the prerelease
\* emptied and major, minor, patch as they were, also when there was no
\* prerelease; applied to its own result it returns that result.
C3_Release ==
    (BumpRan /\ BumpRule = Release) =>
        /\ BumpGave([BumpInput EXCEPT !.pre = <<>>])
        /\ last.result.ok =>
               bump(state.release.version, Release)
                   = Ok(state.release.version)

C3_Witness ==
    /\ BumpRan
    /\ BumpRule = Release
    /\ BumpInput.pre # <<>>
    /\ last.result.ok
    /\ state.release.version.pre = <<>>

\* C4 as claimed: for a version with no prerelease and every Pre rule, bump
\* returns the numbers of bump(v, fallback) with prerelease "label.0", and
\* bumping that again with the same rule keeps the numbers and gives
\* "label.1".
C4_PreFromRelease_AsClaimed ==
    (BumpRan /\ BumpInput.pre = <<>> /\ BumpRule.rule = "Pre") =>
        LET label  == BumpRule.label
            first  == [bump(BumpInput, RuleFrom(BumpRule.fallback_rule)).val
                          EXCEPT !.pre = label \o <<".", "0">>]
            second == [first EXCEPT !.pre = label \o <<".", "1">>]
        IN  /\ BumpGave(first)
            /\ bump(first, BumpRule) = Ok(second)

\* C4, amended: the same for every label that is one valid prerelease
\* identifier (not empty, letters, digits and hyphens only, so no dot, and
\* no leading zero when it is all digits).
C4_PreFromRelease ==
    (/\ BumpRan
     /\ BumpInput.pre = <<>>
     /\ BumpRule.rule = "Pre"
     /\ ValidIdentifier(BumpRule.label, TRUE)) =>
        LET label  == BumpRule.label
            first  == [bump(BumpInput, RuleFrom(BumpRule.fallback_rule)).val
                          EXCEPT !.pre = label \o <<".", "0">>]
            second == [first EXCEPT !.pre = label \o <<".", "1">>]
        IN  /\ BumpGave(first)
            /\ bump(first, BumpRule) = Ok(second)

C4_Witness ==
    /\ BumpRan
    /\ BumpInput.pre = <<>>
    /\ BumpInput.major = 0
    /\ BumpRule = Pre(rc, "Major")
    /\ last.result.ok
    /\ state.release.version.minor = BumpInput.minor + 1
    /\ state.release.version.pre = rc \o <<".", "0">>

\* C5 as claimed: when the existing prerelease is "label.N" with the label
\* asked for and N a decimal unsigned integer, whatever its size, bump
\* succeeds and gives "label.(N+1)".
C5_PreIncrement_AsClaimed ==
    (/\ BumpRan
     /\ BumpRule.rule = "Pre"
     /\ TwoPartPre(BumpInput)
     /\ Split(BumpInput.pre, ".")[1] = BumpRule.label
     /\ ValidNumeric(Split(BumpInput.pre, ".")[2])) =>
        LET n == Decimal(Split(BumpInput.pre, ".")[2])
        IN  BumpGave([BumpInput EXCEPT
                         !.pre = BumpRule.label \o <<".">> \o to_string(n + 1)])

\* C6 as claimed: for an existing two-part prerelease "old.X" a Pre rule
\* leaves major, minor and patch alone whatever the fallback, and when old
\* is not the label asked for the prerelease becomes "label.0".
C6_PreKeepsNumbers_AsClaimed ==
    (BumpRan /\ BumpRule.rule = "Pre" /\ TwoPartPre(BumpInput)) =>
        /\ last.result.ok =>
               /\ state.release.version.major = BumpInput.major
               /\ state.release.version.minor = BumpInput.minor
               /\ state.release.version.patch = BumpInput.patch
        /\ \A fallback \in ConventionalRule :
               bump(BumpInput, Pre(BumpRule.label, fallback))
                   = bump(BumpInput, BumpRule)
        /\ Split(BumpInput.pre, ".")[1] # BumpRule.label =>
               BumpGave([BumpInput EXCEPT
                            !.pre = BumpRule.label \o <<".", "0">>])

\* C6, amended: the numbers are left alone and the fallback is ignored
\* whenever bump succeeds; when old is not the label asked for and
\* "label.0" is a valid prerelease (the label is not empty and each of its
\* dot-separated parts is a valid identifier), the prerelease becomes
\* "label.0".
C6_PreKeepsNumbers ==
    (BumpRan /\ BumpRule.rule = "Pre" /\ TwoPartPre(BumpInput)) =>
        /\ last.result.ok =>
               /\ state.release.version.major = BumpInput.major
               /\ state.release.version.minor = BumpInput.minor
               /\ state.release.version.patch = BumpInput.patch
        /\ \A fallback \in ConventionalRule :
               bump(BumpInput, Pre(BumpRule.label, fallback))
                   = bump(BumpInput, BumpRule)
        /\ (/\ Split(BumpInput.pre, ".")[1] # BumpRule.label
            /\ PrereleaseNew(BumpRule.label \o <<".", "0">>).ok) =>
               BumpGave([BumpInput EXCEPT
                            !.pre = BumpRule.label \o <<".", "0">>])

C6_Witness ==
    /\ BumpRan
    /\ BumpInput.pre = beta \o <<".", "3">>
    /\ BumpRule = Pre(rc, "Major")
    /\ last.result.ok
    /\ state.release.version =
           [BumpInput EXCEPT !.pre = rc \o <<".", "0">>]

\* C7: when the existing prerelease is not exactly two dot-separated parts
\* (one part, three or more), every Pre rule fails with the "could not be
\* incremented" error, whatever its label and fallback, and no version is
\* returned or written.
C7_PreMalformed ==
    (/\ BumpRan
     /\ BumpRule.rule = "Pre"
     /\ BumpInput.pre # <<>>
     /\ ~TwoPartPre(BumpInput)) =>
        /\ ~last.result.ok
        /\ last.result.err = "PrereleaseNotIncrementable"
        /\ cargo_toml = Some(VersionToString(BumpInput))

C7_Witness ==
    /\ BumpRan
    /\ BumpRule = Pre(rc, "Patch")
    /\ BumpInput.pre = rc \o <<".", "1", ".", "2">>
    /\ last.result.err = "PrereleaseNotIncrementable"

----------------------------------------------------------------------------
(* The issue steps: claims C8 to C10, checked under Spec *)

\* The step taken from this state to the next one is op.
StepIs(op) == steps' = steps + 1 /\ last'.op = op

\* C8: a selection step (Jira or GitHub) run when an issue is already
\* selected fails with the "already selected" error, whatever the filter
\* and the candidates: the tracker is not queried, the user is not
\* prompted and the state keeps the issue it had.
C8_SelectOnce ==
    [][(/\ state.issue.variant # "Initial"
        /\ (StepIs("select_jira_issue") \/ StepIs("select_github_issue"))) =>
           /\ ~last'.result.ok
           /\ last'.result.err = "AlreadySelected"
           /\ tracker_calls' = tracker_calls
           /\ prompts' = prompts
           /\ state' = state]_vars

C8_Witness ==
    /\ last.op = "select_jira_issue"
    /\ last.result.err = "AlreadySelected"
    /\ state.issue.variant = "GitHub"
    /\ Len(tracker_calls) = 1
    /\ prompts = 1

\* C9: transition_selected_issue calls the tracker only for a selected
\* Jira issue.  With no issue selected it fails with "no issue selected",
\* with a GitHub issue it fails with "not supported" for every status; in
\* both cases the tracker is not called and no success is returned.
C9_TransitionJiraOnly ==
    [][StepIs("transition_selected_issue") =>
           /\ state.issue.variant = "Initial" =>
                  /\ ~last'.result.ok
                  /\ last'.result.err = "NoIssueSelected"
                  /\ tracker_calls' = tracker_calls
           /\ state.issue.variant = "GitHub" =>
                  /\ ~last'.result.ok
                  /\ last'.result.err = "NotSupported"
                  /\ tracker_calls' = tracker_calls
           /\ tracker_calls' # tracker_calls =>
                  /\ state.issue.variant = "Jira"
                  /\ tracker_calls' =
                         Append(tracker_calls, "jira::transition_issue")]_vars

C9_Witness ==
    /\ last.op = "transition_selected_issue"
    /\ last.arg = "Done"
    /\ last.result.err = "NotSupported"
    /\ state.issue.variant = "GitHub"
    /\ tracker_calls = <<"github::list_issues">>

\* C10: over the successful steps of a run the issue is selected at most
\* once: once an issue is selected no step takes the state back to Initial
\* or changes the issue (variant, key and summary, number and title); a
\* Jira transition that succeeds returns the same key and summary.
C10_IssueKept ==
    [][state.issue.variant # "Initial" =>
           /\ state'.issue = state.issue
           /\ last'.result.ok => last'.result.val.issue = state.issue]_vars

C10_Witness ==
    /\ last.op = "transition_selected_issue"
    /\ last.result.ok
    /\ last.result.val.issue = JiraIssues[2]
    /\ state.issue = JiraIssues[2]

----------------------------------------------------------------------------
(* The release sub-field and the bump step: claims C11 to C13, under Spec *)

\* C11: the release sub-field only moves forward.  It starts at Initial,
\* becomes Bumped only through a bump step that succeeds, and once Bumped
\* no step sets it back to Initial.
C11_ReleaseForward ==
    /\ state.release = ReleaseInitial
    /\ [][/\ state.release.tag = "Bumped" => state'.release.tag = "Bumped"
          /\ (state.release.tag = "Initial"
                /\ state'.release.tag = "Bumped") =>
                 (StepIs("bump_version") /\ last'.result.ok)]_vars

C11_Witness ==
    /\ steps = 2
    /\ last.op = "select_jira_issue"
    /\ last.result.ok
    /\ state.release.tag = "Bumped"
    /\ state.issue.variant = "Jira"

\* C12 as claimed: once release is Bumped(v), a further bump step cannot
\* succeed and replace it with Bumped(v') for a different v'.
C12_BumpedOnce_AsClaimed ==
    [][(state.release.tag = "Bumped" /\ StepIs("bump_version")) =>
          (~last'.result.ok \/ state'.release = state.release)]_vars

----------------------------------------------------------------------------
(* run_command and replace_variables: claims C14 to C17, under Spec *)

\* The command template and the variables of the run_command step that is
\* being taken.
StepVariablesResolve ==
    replace_variables(last'.arg.command, last'.arg.variables).ok

StepCommand ==
    replace_variables(last'.arg.command, last'.arg.variables).val

WouldRun(command) ==
    <<"W", "o", "u", "l", "d", " ", "r", "u", "n", " ">> \o command

\* C14 as claimed: in a dry run, whenever the variables resolve, run_command
\* spawns nothing, never returns CommandError, reports exactly the line
\* "Would run <substituted command>" and returns the state unchanged.
C14_DryRunCommand_AsClaimed ==
    [][(StepIs("run_command") /\ dry_run /\ StepVariablesResolve) =>
          /\ spawned' = spawned
          /\ last'.result.err # "CommandError"
          /\ stdout' = Append(stdout, WouldRun(StepCommand))
          /\ last'.result.ok
          /\ last'.result.val = state
          /\ state' = state]_vars

\* C14: in a dry run, whenever the variables resolve, run_command spawns
\* nothing, never returns CommandError and leaves the state unchanged; it
\* either reports exactly the line "Would run <substituted command>" and
\* returns the state, or the write to the sink failed and it returns that
\* I/O error.
C14_DryRunCommand ==
    [][(StepIs("run_command") /\ dry_run /\ StepVariablesResolve) =>
          /\ spawned' = spawned
          /\ last'.result.err # "CommandError"
          /\ state' = state
          /\ IF last'.result.ok
             THEN /\ stdout' = Append(stdout, WouldRun(StepCommand))
                  /\ last'.result.val = state
             ELSE last'.result.err = "Io"]_vars

C14_Witness ==
    /\ dry_run
    /\ last.op = "run_command"
    /\ last.result.ok
    /\ last.arg.variables # <<>>
    /\ Len(last.arg.command) > 4
    /\ Len(stdout) = 1
    /\ spawned = <<>>

\* C15: in a real run, run_command returns CommandError exactly when the
\* command it spawned exited non-zero, and the error carries that status;
\* when the spawned command exited zero it returns the state it was given,
\* issue and release unchanged.
C15_RealCommand ==
    [][(StepIs("run_command") /\ ~dry_run) =>
          /\ last'.result.err = "CommandError" =>
                 Len(spawned') = Len(spawned) + 1
          /\ Len(spawned') = Len(spawned) + 1 =>
                 IF spawned'[Len(spawned')].status # 0
                 THEN last'.result =
                          [Err("CommandError") EXCEPT
                              !.val = spawned'[Len(spawned')].status]
                 ELSE /\ last'.result.ok
                      /\ last'.result.val = state
                      /\ state' = state]_vars

C15_Witness ==
    /\ ~dry_run
    /\ last.op = "run_command"
    /\ last.result.err = "CommandError"
    /\ last.result.val = 1
    /\ Len(spawned) = 1
    /\ spawned[1].status = 1
    /\ state.issue.variant # "Initial"

\* The value a declared variable stands for in the current state.
Resolved(var) ==
    IF var.var_type = "Version"
    THEN VersionToString(get_version.val.version)
    ELSE branch_name_from_issue(state.issue)

\* The variables whose placeholder token starts the text s.
TokensAt(s, variables) ==
    {i \in 1..Len(variables) :
        /\ Len(variables[i].var_name) \in 1..Len(s)
        /\ SubSeq(s, 1, Len(variables[i].var_name)) = variables[i].var_name}

\* The template with every occurrence of a placeholder token replaced by
\* its value in one pass over the template: inserted text is never looked
\* at again.
RECURSIVE Substituted(_, _)
Substituted(s, variables) ==
    IF s = <<>> THEN <<>>
    ELSE IF TokensAt(s, variables) = {}
    THEN <<s[1]>> \o Substituted(Tail(s), variables)
    ELSE LET var == variables[CHOOSE i \in TokensAt(s, variables) :
                                  \A j \in TokensAt(s, variables) : i <= j]
         IN  Resolved(var)
                 \o Substituted(SubSeq(s, Len(var.var_name) + 1, Len(s)),
                                variables)

\* C16 as claimed: the command run_command reports or spawns is the
\* original template with each placeholder token replaced by its value at
\* every occurrence, text inserted by one substitution never being replaced
\* by another, whatever the order in which the variable map is visited.
C16_NoRescan_AsClaimed ==
    [][(StepIs("run_command") /\ StepVariablesResolve) =>
          /\ stdout' # stdout =>
                 stdout'[Len(stdout')] =
                     WouldRun(Substituted(last'.arg.command,
                                          last'.arg.variables))
          /\ spawned' # spawned =>
                 spawned'[Len(spawned')].command =
                     Substituted(last'.arg.command, last'.arg.variables)]_vars

Declares(variables, var_type) ==
    \E i \in 1..Len(variables) : variables[i].var_type = var_type

\* C17: a run_command step whose variables include an issue branch name,
\* taken with no issue selected (and with a version to be found if a
\* version variable is declared), fails with NoIssueSelected in a dry run
\* and in a real run; nothing is spawned and nothing is reported.
C17_NoIssueSelected ==
    [][(/\ StepIs("run_command")
        /\ Declares(last'.arg.variables, "IssueBranch")
        /\ ~IssueSelected
        /\ Declares(last'.arg.variables, "Version") => get_version.ok) =>
          /\ ~last'.result.ok
          /\ last'.result.err = "NoIssueSelected"
          /\ spawned' = spawned
          /\ stdout' = stdout]_vars

C17_Witness ==
    /\ last.op = "run_command"
    /\ last.result.err = "NoIssueSelected"
    /\ Declares(last.arg.variables, "Version")
    /\ last.arg.variables[1].var_type = "Version"
    /\ get_version.ok
    /\ ~dry_run
    /\ steps = 2
    /\ state.release.tag = "Bumped"

----------------------------------------------------------------------------
(* Version discovery and the manifest write: claims C18 and C19, under Spec *)

\* The manifest that discovery must stop at: the first of Cargo.toml,
\* pyproject.toml, package.json that holds a version string.
FirstManifest ==
    IF cargo_toml.some THEN "Cargo"
    ELSE IF pyproject_toml.some THEN "Poetry"
    ELSE IF package_json.some THEN "JavaScript"
    ELSE "None"

PackageManagers == {"Cargo", "Poetry", "JavaScript"}

\* C18: a bump step finds the version in the first of Cargo.toml,
\* pyproject.toml, package.json that holds a version string; if that string
\* is not valid SemVer discovery fails and no later manifest is asked; a
\* successful real-mode bump writes the new version to the manifest the
\* version was found in and leaves the other two as they were.
C18_ProbeOrder ==
    [][(StepIs("bump_version") /\ FirstManifest # "None") =>
          /\ last'.found =
                 found_version(ManifestOf(Files, FirstManifest).v,
                               FirstManifest)
          /\ ~VersionParse(ManifestOf(Files, FirstManifest).v).ok =>
                 /\ ~last'.result.ok
                 /\ last'.result.err = "InvalidVersion"
          /\ (last'.result.ok /\ ~dry_run) =>
                 \A pm \in PackageManagers :
                     ManifestOf(Files', pm) =
                         IF pm = FirstManifest
                         THEN Some(VersionToString(
                                       state'.release.version))
                         ELSE ManifestOf(Files, pm)]_vars

C18_Witness ==
    /\ BumpRan
    /\ ~dry_run
    /\ last.result.ok
    /\ ~cargo_toml.some
    /\ last.found.val.package_manager = "Poetry"
    /\ pyproject_toml = Some(VersionToString(state.release.version))
    /\ pyproject_toml \notin PyprojectVersions
    /\ package_json \in PackageJsonVersions \ {None}

\* The rule of the bump step being taken applies to the version found.
StepRuleApplies ==
    /\ last'.found.ok
    /\ bump(last'.found.val.version, last'.arg).ok

\* C19: a bump step that finds no manifest, finds a version that is not
\* valid SemVer, or has a rule that does not apply to the version found,
\* fails, writes no manifest and records no Bumped release; a manifest
\* changes only when the rule applied, and release changes only when the
\* step succeeded, in a real run with the manifest holding the new version.
C19_FailedBumpWritesNothing ==
    [][StepIs("bump_version") =>
          /\ ~StepRuleApplies =>
                 /\ ~last'.result.ok
                 /\ UNCHANGED <<cargo_toml, pyproject_toml, package_json>>
                 /\ state' = state
          /\ Files' # Files => StepRuleApplies
          /\ state'.release # state.release =>
                 /\ last'.result.ok
                 /\ state'.release.tag = "Bumped"
                 /\ ~dry_run =>
                        ManifestOf(Files', last'.found.val.package_manager)
                            = Some(VersionToString(
                                       state'.release.version))
          /\ ~last'.result.ok => state'.release = state.release]_vars

C19_Witness ==
    /\ BumpRan
    /\ ~dry_run
    /\ ~last.result.ok
    /\ last.result.err = "PrereleaseNotIncrementable"
    /\ last.arg.rule = "Pre"
    /\ package_json = Some(<<"2", ".", "0", ".", "0", "-", "b">>)
    /\ state.release = ReleaseInitial

----------------------------------------------------------------------------
(* SemVer precedence: claim C20, under SpecBump *)

\* The characters of an identifier in ASCII order.
AsciiOrder ==
    <<"-", "0", "1", "2", "3", "4", "5", "6", "7", "8", "9",
      "A", "B", "C", "D", "E", "F", "G", "H", "I", "J", "K", "L", "M",
      "N", "O", "P", "Q", "R", "S", "T", "U", "V", "W", "X", "Y", "Z",
      "a", "b", "c", "d", "e", "f", "g", "h", "i", "j", "k", "l", "m",
      "n", "o", "p", "q", "r", "s", "t", "u", "v", "w", "x", "y", "z">>

CharCode(c) == CHOOSE i \in 1..Len(AsciiOrder) : AsciiOrder[i] = c

CompareInt(a, b) == IF a < b THEN -1 ELSE IF a > b THEN 1 ELSE 0

\* Lexical order of two texts, character by character; a proper prefix
\* comes first.
RECURSIVE CompareText(_, _)
CompareText(a, b) ==
    IF a = <<>> /\ b = <<>> THEN 0
    ELSE IF a = <<>> THEN -1
    ELSE IF b = <<>> THEN 1
    ELSE IF a[1] # b[1] THEN CompareInt(CharCode(a[1]), CharCode(b[1]))
    ELSE CompareText(Tail(a), Tail(b))

\* Digit strings of any length by value: without leading zeros the longer
\* one is the larger, and equal lengths compare as text.
CompareNumeric(a, b) ==
    IF Len(a) # Len(b) THEN CompareInt(Len(a), Len(b)) ELSE CompareText(a, b)

\* SemVer 11.4.1 to 11.4.3: numeric identifiers by value, numeric below
\* alphanumeric, alphanumeric ones in ASCII order.
CompareIdentifier(a, b) ==
    IF AllDigits(a) /\ AllDigits(b) THEN CompareNumeric(a, b)
    ELSE IF AllDigits(a) THEN -1
    ELSE IF AllDigits(b) THEN 1
    ELSE CompareText(a, b)

\* SemVer 11.4.4: identifier by identifier; with all of the shorter list
\* equal, the longer list is the higher.
RECURSIVE CompareIdentifiers(_, _)
CompareIdentifiers(p, q) ==
    IF p = <<>> /\ q = <<>> THEN 0
    ELSE IF p = <<>> THEN -1
    ELSE IF q = <<>> THEN 1
    ELSE IF CompareIdentifier(p[1], q[1]) # 0
    THEN CompareIdentifier(p[1], q[1])
    ELSE CompareIdentifiers(Tail(p), Tail(q))

\* SemVer 11.3: a version with a prerelease is lower than the same numbers
\* without one.
ComparePre(p, q) ==
    IF p = <<>> /\ q = <<>> THEN 0
    ELSE IF p = <<>> THEN 1
    ELSE IF q = <<>> THEN -1
    ELSE CompareIdentifiers(Split(p, "."), Split(q, "."))

\* SemVer 11: v is lower than w in precedence.
Lower(v, w) ==
    IF v.major # w.major THEN v.major < w.major
    ELSE IF v.minor # w.minor THEN v.minor < w.minor
    ELSE IF v.patch # w.patch THEN v.patch < w.patch
    ELSE ComparePre(v.pre, w.pre) = -1

\* C20 as claimed: whatever the rule, a bump that succeeds gives a version
\* that is not lower than the one it started from, also when a Pre rule
\* replaces the existing prerelease label by another one.
C20_NotBackwards_AsClaimed ==
    (BumpRan /\ last.result.ok) =>
        ~Lower(state.release.version, BumpInput)

\* The Pre rule keeps the label of a label.N prerelease whose counter is
\* below the largest u16.
PreCounts ==
    /\ TwoPartPre(BumpInput)
    /\ Split(BumpInput.pre, ".")[1] = BumpRule.label
    /\ AllDigits(Split(BumpInput.pre, ".")[2])
    /\ DecimalValue(Split(BumpInput.pre, ".")[2], U16Max) < U16Max

\* C20: a bump that succeeds gives a version that is not lower than the one
\* it started from when the rule is Major, Minor, Patch or Release, when a
\* Pre rule is applied to a version without a prerelease, and when a Pre
\* rule with the label of the existing label.N prerelease finds N below
\* 65535.
C20_NotBackwards ==
    (/\ BumpRan
     /\ last.result.ok
     /\ BumpRule.rule # "Pre" \/ BumpInput.pre = <<>> \/ PreCounts) =>
        ~Lower(state.release.version, BumpInput)

C20_Witness ==
    /\ BumpRan
    /\ last.result.ok
    /\ BumpRule = Pre(rc, "Patch")
    /\ BumpInput = Version(1, 1, 1, rc \o <<".", "6", "5", "5", "3", "4">>)
    /\ state.release.version =
           Version(1, 1, 1, rc \o <<".", "6", "5", "5", "3", "5">>)
    /\ Lower(BumpInput, state.release.version)

====
